---------------------------- MODULE Spec2Model ----------------------------
(***************************************************************************)
(* A model of the pilgrimage-guide web page: the offline cache worker      *)
(* (service-worker.js), the search manager, the checklist accordion and    *)
(* the application start-up (script.js).                                   *)
(*                                                                         *)
(* Strings are sequences of one-character strings, so that length, trim,   *)
(* lower-casing and substring search are computed as the code computes     *)
(* them.  A Korean syllable is one UTF-16 unit and is written here as one  *)
(* romanised element, e.g. "파리" is <<"pa","ri">>.                         *)
(***************************************************************************)
EXTENDS Integers, Sequences, FiniteSets, TLC

VARIABLES
    \* ---- offline cache worker (service-worker.js)
    cacheNames,   \* Cache Storage: the store names, in creation order
    cacheData,    \* store name -> (request URL -> stored response)
    wstate,       \* version -> life-cycle state of the worker of that version
    actKeys,      \* the names of the caches.keys() snapshot handed to caches.delete
    actDone,      \* the names among them whose store has been deleted
    pageOpen,     \* a page of the site is open
    controller,   \* version of the worker controlling the page, 0 for none
    event,        \* the fetch event being handled: its progress and what it did
    puts          \* runtime-caching jobs the fetch handler started and does not await

VARIABLES
    \* ---- the rendered page (script.js, Renderer) and the search manager
    nItems,         \* section id -> number of searchable items rendered in it
    display,        \* <<section, item>> -> TRUE for style.display '' , FALSE for 'none'
    hidden,         \* section id -> the section carries the class 'hidden'
    open,           \* checklist category -> its content carries the class 'open'
    ariaExpanded,   \* checklist category -> aria-expanded of its header
    icon,           \* checklist category -> text of its .toggle-icon
    value,          \* searchInput.value
    timer,          \* the debounce timeout of the input handler is pending
    elapsed,        \* milliseconds since that timeout was set, up to its delay
    runs,           \* runs of the debounced handler since the last 'input' event
    searchHistory,  \* SearchManager.searchHistory
    storedHistory,  \* localStorage 'searchHistory'
    suggItems,      \* data-query attributes of the suggestion items on display
    suggVisible,    \* #search-suggestions does not carry the class 'hidden'
    last            \* the last search, reset, toggle, submission or clearing that
                    \* ran, what it was given and what it found

VARIABLES
    \* ---- the application (script.js, App)
    appPc,          \* where App.init is: "constructed", "fetch", "json", "returned"
    net,            \* how the request for data.json ended, "pending" before
    loadingEl,      \* the document has an element with id 'loading'
    loadingText,    \* its textContent
    loadingDisplay, \* its style.display
    themeToggleEl,  \* the document has an element with id 'theme-toggle'
    themeListener,  \* the click listener of setupTheme is attached to it
    dataTheme,      \* the data-theme attribute of the document element
    appData,        \* localStorage 'appData'
    storedTheme,    \* localStorage 'theme'
    offlineTimer,   \* the 2000 ms timeout of the offline notice is pending
    steps           \* the initialization steps that ran, in order

swVars == <<cacheNames, cacheData, wstate, actKeys, actDone, pageOpen, controller, event, puts>>

domVars == <<nItems, display, hidden, open, ariaExpanded, icon>>

searchVars == <<value, timer, elapsed, runs, searchHistory, storedHistory, suggItems,
                suggVisible, last>>

appVars == <<appPc, net, loadingEl, loadingText, loadingDisplay, themeToggleEl,
             themeListener, dataTheme, appData, storedTheme, offlineTimer, steps>>

vars == <<swVars, domVars, searchVars, appVars>>

-----------------------------------------------------------------------------
(* Bounds of the model *)

MaxVersion == 2     \* worker versions deployed one after the other
MaxPuts == 1        \* runtime-caching jobs pending when the page makes a request
MaxItems == 1       \* searchable items of the itinerary section
MaxCategories == 2  \* checklist categories
TickMs == 100       \* milliseconds by which the clock of the debounce advances

-----------------------------------------------------------------------------
(* String helpers *)

\* String.prototype.includes
Includes(s, sub) ==
    \E i \in 0..(Len(s) - Len(sub)) : SubSeq(s, i + 1, i + Len(sub)) = sub

\* String.prototype.toLowerCase, on the letters the model uses
LowerChar(c) == IF c = "A" THEN "a" ELSE IF c = "B" THEN "b" ELSE c
ToLowerCase(s) == [i \in 1..Len(s) |-> LowerChar(s[i])]

\* String.prototype.trim
RECURSIVE TrimStart(_)
TrimStart(s) == IF s # <<>> /\ Head(s) = " " THEN TrimStart(Tail(s)) ELSE s
RECURSIVE TrimEnd(_)
TrimEnd(s) ==
    IF s # <<>> /\ s[Len(s)] = " " THEN TrimEnd(SubSeq(s, 1, Len(s) - 1)) ELSE s
Trim(s) == TrimEnd(TrimStart(s))

-----------------------------------------------------------------------------
(* service-worker.js *)

Versions == 1..MaxVersion

\* const CACHE_NAME: one name per deployed version of the script
CACHE_NAME(v) == <<"pilgrimage-guide-v", v>>

\* a store of the same origin that no version of the worker names
OtherCache == <<"other-cache", 0>>

UrlRoot == <<"/">>
UrlIndex == <<"/","i","n","d","e","x",".","h","t","m","l">>
UrlStyle == <<"/","s","t","y","l","e",".","c","s","s">>
UrlScript == <<"/","s","c","r","i","p","t",".","j","s">>
UrlData == <<"/","d","a","t","a",".","j","s","o","n">>
UrlManifest == <<"/","m","a","n","i","f","e","s","t",".","j","s","o","n">>
UrlIcon192 == <<"/","i","c","o","n","s","/","i","c","o","n","-","1","9","2",".","p","n","g">>
UrlIcon512 == <<"/","i","c","o","n","s","/","i","c","o","n","-","5","1","2",".","p","n","g">>

urlsToCache ==
    {UrlRoot, UrlIndex, UrlStyle, UrlScript, UrlData, UrlManifest, UrlIcon192, UrlIcon512}

UrlXJson == <<"/","x",".","j","s","o","n">>
UrlXPdf == <<"/","x",".","p","d","f">>
UrlXPdfJs == <<"/","x",".","p","d","f","?",".","j","s">>

\* the requests the page makes in the model
RequestUrls == {UrlData, UrlXJson, UrlXPdf, UrlXPdfJs}
Methods == {"GET", "POST"}
Statuses == {200, 404}
ResponseTypes == {"basic", "opaque"}

NoResponse == [kind |-> "none"]
Undefined == [kind |-> "undefined"]

\* what the page's fetch() gets when respondWith() was given something that is
\* not a Response: a network error, the page's promise rejects with a TypeError
NetworkError == [kind |-> "network-error"]

NoStore == <<"no-store", 0>>

\* a response: its status and type, how it was obtained ("network", or for a
\* stored one "precache" or "runtime"), and the store caches.match took it from
Response(status, type, from) ==
    [kind |-> "response", status |-> status, type |-> type, from |-> from,
     store |-> NoStore]

\* the url.includes(...) test of the runtime caching
IsRuntimeCacheable(url) ==
    \/ Includes(url, <<".","j","s">>)
    \/ Includes(url, <<".","c","s","s">>)
    \/ Includes(url, <<".","p","n","g">>)
    \/ Includes(url, <<".","j","s","o","n">>)

\* a handler that looks at the response type alone
IsValidResponse_AnyStatus(r) == r.type = "basic"

\* networkResponse.status !== 200 || networkResponse.type !== 'basic' is false
IsValidResponse(r) == r.status = 200 /\ r.type = "basic"

\* caches.match(request): the first store, in creation order, holding the request
RECURSIVE MatchIn(_, _, _)
MatchIn(names, data, url) ==
    IF names = <<>> THEN NoResponse
    ELSE IF url \in DOMAIN data[Head(names)]
         THEN [data[Head(names)][url] EXCEPT !.store = Head(names)]
         ELSE MatchIn(Tail(names), data, url)

\* a handler that never finds a cached response
CachesMatch_Miss(url) == NoResponse

CachesMatch(url) == MatchIn(cacheNames, cacheData, url)

HasStore(name) == \E i \in 1..Len(cacheNames) : cacheNames[i] = name

EmptyStore == [u \in {} |-> NoResponse]

\* caches.open(name): the store is created when it does not exist
OpenedNames(name) == IF HasStore(name) THEN cacheNames ELSE Append(cacheNames, name)
OpenedData(name) ==
    IF HasStore(name) THEN cacheData
    ELSE [n \in DOMAIN cacheData \cup {name} |->
            IF n = name THEN EmptyStore ELSE cacheData[n]]

\* cache.put / cache.addAll: entries written into one store (a deleted store's
\* handle writes into nothing that Cache Storage still lists)
WithEntries(data, name, urls, resp) ==
    IF name \notin DOMAIN data THEN data
    ELSE [data EXCEPT ![name] =
            [u \in DOMAIN data[name] \cup urls |->
                IF u \in urls THEN resp ELSE data[name][u]]]

RECURSIVE SeqWithout(_, _)
SeqWithout(s, x) ==
    IF s = <<>> THEN <<>>
    ELSE IF Head(s) = x THEN SeqWithout(Tail(s), x)
         ELSE <<Head(s)>> \o SeqWithout(Tail(s), x)

\* caches.delete(name)
DeletedNames(name) == SeqWithout(cacheNames, name)
DeletedData(name) == [n \in DOMAIN cacheData \ {name} |-> cacheData[n]]

IdleEvent ==
    [pc |-> "idle", ver |-> 0, method |-> "GET", url |-> UrlRoot,
     seen |-> {}, netCalled |-> FALSE, netFailed |-> FALSE,
     handed |-> NoResponse, resp |-> NoResponse]

\* the entries Cache Storage holds for a request: <<store name, response>>
EntriesFor(url) ==
    {<<n, cacheData[n][url]>> : n \in {m \in DOMAIN cacheData : url \in DOMAIN cacheData[m]}}

\* the worker that is the registration's active worker, 0 for none
ActiveVersion ==
    IF \E v \in Versions : wstate[v] \in {"activating", "deleting", "activated"}
    THEN CHOOSE v \in Versions : wstate[v] \in {"activating", "deleting", "activated"}
    ELSE 0

\* the respondWith() promise is not settled yet
EventPending == event.pc \in {"matching", "fetching", "settled"}

WorkerInit ==
    /\ \E other \in BOOLEAN :
          /\ cacheNames = IF other THEN <<OtherCache>> ELSE <<>>
          /\ cacheData = IF other THEN [n \in {OtherCache} |-> EmptyStore]
                         ELSE [n \in {} |-> EmptyStore]
    /\ wstate = [v \in Versions |-> "parsed"]
    /\ actKeys = {}
    /\ actDone = {}
    /\ pageOpen \in BOOLEAN
    /\ controller = 0
    /\ event = IdleEvent
    /\ puts = {}

\* A new version of the script is found and its install event is dispatched:
\* the handler calls caches.open(CACHE_NAME) inside waitUntil.
InstallStart(v) ==
    /\ wstate[v] = "parsed"
    /\ \A u \in Versions : u < v => wstate[u] \in {"activated", "redundant"}
    /\ \A u \in Versions : u > v => wstate[u] = "parsed"
    /\ wstate' = [wstate EXCEPT ![v] = "installing"]
    /\ UNCHANGED <<appVars, domVars, searchVars, cacheNames, cacheData, actKeys, actDone, pageOpen, controller, event, puts>>

\* caches.open(CACHE_NAME) resolves; cache.addAll(urlsToCache) is called
InstallOpen(v) ==
    /\ wstate[v] = "installing"
    /\ cacheNames' = OpenedNames(CACHE_NAME(v))
    /\ cacheData' = OpenedData(CACHE_NAME(v))
    /\ wstate' = [wstate EXCEPT ![v] = "adding"]
    /\ UNCHANGED <<appVars, domVars, searchVars, actKeys, actDone, pageOpen, controller, event, puts>>

\* caches.open(CACHE_NAME) rejects: nothing catches it, the install fails
InstallOpenFails(v) ==
    /\ wstate[v] = "installing"
    /\ wstate' = [wstate EXCEPT ![v] = "redundant"]
    /\ UNCHANGED <<appVars, domVars, searchVars, cacheNames, cacheData, actKeys, actDone, pageOpen, controller, event, puts>>

\* cache.addAll resolves: every listed resource is stored
InstallAddAll(v) ==
    /\ wstate[v] = "adding"
    /\ cacheData' = WithEntries(cacheData, CACHE_NAME(v), urlsToCache,
                                Response(200, "basic", "precache"))
    /\ wstate' = [wstate EXCEPT ![v] = "installed"]
    /\ UNCHANGED <<appVars, domVars, searchVars, cacheNames, actKeys, actDone, pageOpen, controller, event, puts>>

\* an install whose addAll has no .catch(): the rejection reaches waitUntil
InstallAddAllFails_Rejects(v) ==
    /\ wstate[v] = "adding"
    /\ wstate' = [wstate EXCEPT ![v] = "redundant"]
    /\ UNCHANGED <<appVars, domVars, searchVars, cacheNames, cacheData, actKeys, actDone, pageOpen, controller, event, puts>>

\* cache.addAll rejects (one resource could not be fetched): nothing is stored,
\* the .catch() turns the rejection into a warning
InstallAddAllFails(v) ==
    /\ wstate[v] = "adding"
    /\ wstate' = [wstate EXCEPT ![v] = "installed"]
    /\ UNCHANGED <<appVars, domVars, searchVars, cacheNames, cacheData, actKeys, actDone, pageOpen, controller, event, puts>>

\* The activate event is dispatched to the waiting worker.  The browser does so
\* when there is no active worker, or the active one has no pending event and
\* controls no page; the replaced worker is terminated.  The handler calls
\* caches.keys() inside waitUntil and then, at once, self.clients.claim().
ActivateStart(v) ==
    /\ wstate[v] = "installed"
    /\ \/ ActiveVersion = 0
       \/ /\ ActiveVersion # 0
          /\ wstate[ActiveVersion] = "activated"
          /\ controller # ActiveVersion
          /\ ~EventPending
    /\ wstate' = [u \in Versions |->
                    IF u = v THEN "activating"
                    ELSE IF u = ActiveVersion THEN "redundant" ELSE wstate[u]]
    /\ event' = IdleEvent
    /\ puts' = {}
    /\ controller' = IF pageOpen THEN v ELSE controller
    /\ actKeys' = {}
    /\ actDone' = {}
    /\ UNCHANGED <<appVars, domVars, searchVars, cacheNames, cacheData, pageOpen>>

\* an activation that deletes the stores of the older versions only
StaleNames_OlderVersions(v) ==
    {cacheNames[i] : i \in 1..Len(cacheNames)} \cap {CACHE_NAME(u) : u \in 1..(v - 1)}

\* the names of cacheNames.map(...) that cacheWhitelist does not hold
StaleNames(v) == {cacheNames[i] : i \in 1..Len(cacheNames)} \ {CACHE_NAME(v)}

\* caches.keys() resolves: every name but CACHE_NAME is handed to caches.delete
ActivateKeys(v) ==
    /\ wstate[v] = "activating"
    /\ actKeys' = StaleNames(v)
    /\ wstate' = [wstate EXCEPT ![v] = "deleting"]
    /\ UNCHANGED <<appVars, domVars, searchVars, cacheNames, cacheData, actDone, pageOpen, controller, event, puts>>

\* one caches.delete(cacheName) of the Promise.all takes effect
ActivateDelete(v, name) ==
    /\ wstate[v] = "deleting"
    /\ name \in actKeys \ actDone
    /\ cacheNames' = DeletedNames(name)
    /\ cacheData' = DeletedData(name)
    /\ actDone' = actDone \cup {name}
    /\ UNCHANGED <<appVars, domVars, searchVars, wstate, actKeys, pageOpen, controller, event, puts>>

\* the Promise.all resolves: the work waitUntil was given has completed
ActivateDone(v) ==
    /\ wstate[v] = "deleting"
    /\ actDone = actKeys
    /\ wstate' = [wstate EXCEPT ![v] = "activated"]
    /\ UNCHANGED <<appVars, domVars, searchVars, cacheNames, cacheData, actKeys, actDone, pageOpen, controller, event, puts>>

\* a page of the site is opened: the active worker, if any, controls it
PageOpen ==
    /\ ~pageOpen
    /\ pageOpen' = TRUE
    /\ controller' = ActiveVersion
    /\ UNCHANGED <<appVars, domVars, searchVars, cacheNames, cacheData, wstate, actKeys, actDone, event, puts>>

PageClose ==
    /\ pageOpen
    /\ pageOpen' = FALSE
    /\ controller' = 0
    /\ UNCHANGED <<appVars, domVars, searchVars, cacheNames, cacheData, wstate, actKeys, actDone, event, puts>>

\* The fetch event of a request of the controlled page.  A request that is not
\* a GET makes the handler return before respondWith; for a GET it calls
\* caches.match(event.request) inside respondWith.
FetchEvent(method, url) ==
    /\ pageOpen
    /\ controller \in Versions
    /\ wstate[controller] = "activated"
    /\ event.pc \in {"idle", "passed", "responded"}
    /\ Cardinality(puts) <= MaxPuts
    /\ event' =
                    [IdleEvent EXCEPT !.pc = IF method # "GET" THEN "passed" ELSE "matching",
                                      !.ver = controller, !.method = method, !.url = url]
    /\ UNCHANGED <<appVars, domVars, searchVars, cacheNames, cacheData, wstate, actKeys, actDone, pageOpen, controller, puts>>

\* caches.match resolves: a found response is returned, otherwise fetch() is called
FetchMatch ==
    /\ event.pc = "matching"
    /\ LET response == CachesMatch(event.url)
       IN event' =
            IF response # NoResponse
            THEN [event EXCEPT !.pc = "settled", !.seen = EntriesFor(event.url),
                               !.handed = response]
            ELSE [event EXCEPT !.pc = "fetching", !.seen = EntriesFor(event.url),
                               !.netCalled = TRUE]
    /\ UNCHANGED <<appVars, domVars, searchVars, cacheNames, cacheData, wstate, actKeys, actDone, pageOpen, controller, puts>>

\* fetch(event.request) resolves with networkResponse.  A response that is not
\* a 200 'basic' one is returned as it is; otherwise caches.open(CACHE_NAME) is
\* started, and not awaited, before the response is returned.
FetchNetwork(status, type) ==
    /\ event.pc = "fetching"
    /\ LET networkResponse == Response(status, type, "network")
       IN /\ event' =
                          [event EXCEPT !.pc = "settled", !.handed = networkResponse]
          /\ puts' = IF IsValidResponse(networkResponse)
                     THEN puts \cup {[ver |-> event.ver, url |-> event.url,
                                      resp |-> networkResponse, pc |-> "opening"]}
                     ELSE puts
    /\ UNCHANGED <<appVars, domVars, searchVars, cacheNames, cacheData, wstate, actKeys, actDone, pageOpen, controller>>

\* fetch(event.request) rejects: the .catch() logs and returns nothing
FetchNetworkFails ==
    /\ event.pc = "fetching"
    /\ event' = [event EXCEPT !.pc = "settled", !.netFailed = TRUE,
                              !.handed = Undefined]
    /\ UNCHANGED <<appVars, domVars, searchVars, cacheNames, cacheData, wstate, actKeys, actDone, pageOpen, controller, puts>>

\* the page receives what respondWith was given
FetchRespond ==
    /\ event.pc = "settled"
    /\ event' = [event EXCEPT !.pc = "responded",
                              !.resp = IF event.handed.kind = "undefined" THEN NetworkError
                                       ELSE event.handed]
    /\ UNCHANGED <<appVars, domVars, searchVars, cacheNames, cacheData, wstate, actKeys, actDone, pageOpen, controller, puts>>

\* caches.open(CACHE_NAME) of the runtime caching resolves: cache.put is called
\* when the URL passes the includes() tests
RuntimeOpen(j) ==
    /\ j \in puts
    /\ j.pc = "opening"
    /\ cacheNames' = OpenedNames(CACHE_NAME(j.ver))
    /\ cacheData' = OpenedData(CACHE_NAME(j.ver))
    /\ puts' = IF IsRuntimeCacheable(j.url)
               THEN (puts \ {j}) \cup {[j EXCEPT !.pc = "putting"]}
               ELSE puts \ {j}
    /\ UNCHANGED <<appVars, domVars, searchVars, wstate, actKeys, actDone, pageOpen, controller, event>>

\* cache.put(event.request, responseToCache) takes effect
RuntimePut(j) ==
    /\ j \in puts
    /\ j.pc = "putting"
    /\ cacheData' = WithEntries(cacheData, CACHE_NAME(j.ver), {j.url},
                                [j.resp EXCEPT !.from = "runtime"])
    /\ puts' = puts \ {j}
    /\ UNCHANGED <<appVars, domVars, searchVars, cacheNames, wstate, actKeys, actDone, pageOpen, controller, event>>

NextWorker ==
    \/ \E v \in Versions : InstallStart(v)
    \/ \E v \in Versions : InstallOpen(v)
    \/ \E v \in Versions : InstallOpenFails(v)
    \/ \E v \in Versions : InstallAddAll(v)
    \/ \E v \in Versions : InstallAddAllFails(v)
    \/ \E v \in Versions : ActivateStart(v)
    \/ \E v \in Versions : ActivateKeys(v)
    \/ \E v \in Versions, name \in actKeys : ActivateDelete(v, name)
    \/ \E v \in Versions : ActivateDone(v)
    \/ PageOpen
    \/ PageClose
    \/ \E m \in Methods, u \in RequestUrls : FetchEvent(m, u)
    \/ FetchMatch
    \/ \E s \in Statuses, t \in ResponseTypes : FetchNetwork(s, t)
    \/ FetchNetworkFails
    \/ FetchRespond
    \/ \E j \in puts : RuntimeOpen(j)
    \/ \E j \in puts : RuntimePut(j)

-----------------------------------------------------------------------------
(* script.js: the rendered page *)

\* const SEARCH_SYNONYMS: the synonym lists (the keys are not used by the code)
SEARCH_SYNONYMS ==
    { {<<"pa","ri">>, <<"eh","pel","tap">>, <<"ru","beu","reu">>},
      {<<"seu","wi","seu">>, <<"yung","peu","ra","wu">>},
      {<<"yi","tal","ri","ah">>, <<"ro","ma">>},
      {<<"hang","gong">>, <<"chul","bal">>, <<"do","chak">>},
      {<<"nal","ssi">>, <<"ot">>, <<"pae","ding">>},
      {<<"jun","bi","mul">>, <<"jim">>, <<"yeo","gwon">>},
      {<<"bi","yong">>, <<"hoe","bi">>, <<"yu","ro">>} }

\* CONFIG.MAX_SEARCH_HISTORY
MAX_SEARCH_HISTORY == 5

\* the 'main > section' elements: one the itinerary is rendered into, the one
\* with id 'checklist', and one without any searchable item
SectionIds == {"itinerary", "checklist", "notice"}

\* what an item's data-search-content attribute (or else its text) holds
ItineraryContents == << <<"A","b"," ","ro","ma">>, <<"eh","pel","tap">> >>
ChecklistContents ==
    << <<"pa","ri"," ","yeo","gwon">>, <<"ru","beu","reu"," ","A","b">>,
       <<"jim"," ","A","b">> >>

Content(s, i) ==
    IF s = "checklist"
    THEN ChecklistContents[((i - 1) % Len(ChecklistContents)) + 1]
    ELSE ItineraryContents[((i - 1) % Len(ItineraryContents)) + 1]

\* section.querySelectorAll('[data-search-content], .itinerary-day-card')
Items(s) == 1..nItems[s]
ItemKeys == {<<s, i>> : s \in SectionIds, i \in 1..(MaxItems + MaxCategories)}
AllItems == {k \in ItemKeys : k[2] \in Items(k[1])}
Categories == Items("checklist")

\* the page as Renderer leaves it: every item shown, every category closed
PageInit ==
    /\ nItems \in {f \in [SectionIds -> 0..(MaxItems + MaxCategories)] :
                     /\ f["itinerary"] <= MaxItems
                     /\ f["checklist"] <= MaxCategories
                     /\ f["notice"] = 0}
    /\ display = [k \in AllItems |-> TRUE]
    /\ hidden = [s \in SectionIds |-> FALSE]
    /\ open = [c \in Categories |-> FALSE]
    /\ ariaExpanded = [c \in Categories |-> FALSE]
    /\ icon = [c \in Categories |-> "+"]

NoOp == [op |-> "none", q |-> <<>>, h |-> 0, was |-> {}]

\* a toggle that leaves the other categories as they are
ToggledOpen_KeepOthers(h) == [c \in Categories |-> IF c = h THEN ~open[h] ELSE open[c]]

\* the 'open' classes toggleChecklist(header) leaves: every other open content
\* is closed, the header's own content is toggled
ToggledOpen(h) == [c \in Categories |-> IF c = h THEN ~open[h] ELSE FALSE]

\* Renderer.toggleChecklist(header), from a click or an Enter/Space key on a
\* header the page shows
ToggleChecklist(h) ==
    /\ h \in Categories
    /\ display[<<"checklist", h>>]
    /\ ~hidden["checklist"]
    /\ LET isOpen == open[h]
       IN /\ open' = ToggledOpen(h)
          /\ ariaExpanded' = [c \in Categories |->
                                IF c = h THEN ~isOpen
                                ELSE IF open[c] THEN FALSE ELSE ariaExpanded[c]]
          /\ icon' = [c \in Categories |->
                        IF c = h THEN (IF ~isOpen THEN "-" ELSE "+")
                        ELSE IF open[c] THEN "+" ELSE icon[c]]
    /\ last' = [op |-> "toggle", q |-> <<>>, h |-> h, was |-> {c \in Categories : open[c]}]
    /\ UNCHANGED <<nItems, display, hidden>>
    /\ UNCHANGED <<value, timer, elapsed, runs, searchHistory, storedHistory, suggItems,
                   suggVisible>>
    /\ UNCHANGED <<appVars, swVars>>

-----------------------------------------------------------------------------
(* script.js: the search manager *)

\* an expansion that knows no synonyms
expandSearchQuery_LiteralOnly(query) == {ToLowerCase(query)}

\* expandSearchQuery(query)
expandSearchQuery(query) ==
    IF query = <<>> \/ Len(query) < 2 THEN {query}
    ELSE {ToLowerCase(query)} \cup
         UNION {{ToLowerCase(syn) : syn \in synonyms} :
                  synonyms \in {g \in SEARCH_SYNONYMS :
                      \E syn \in g : Includes(ToLowerCase(query), ToLowerCase(syn))}}

\* a match test that leaves an item hidden once an earlier search hid it
IsMatch_StillShown(s, i, expandedTerms) ==
    /\ display[<<s, i>>]
    /\ \E term \in expandedTerms :
          Includes(ToLowerCase(Content(s, i)), term) /\ Len(term) > 0

\* isMatch of performSearch, for one item
IsMatch(s, i, expandedTerms) ==
    \E term \in expandedTerms :
        Includes(ToLowerCase(Content(s, i)), term) /\ Len(term) > 0

\* sectionHasResults of performSearch
SectionHasResults(s, expandedTerms) == \E i \in Items(s) : IsMatch(s, i, expandedTerms)

\* a section test that does not look at the number of items
SectionHidden_NoCount(s, expandedTerms) == ~SectionHasResults(s, expandedTerms)

\* section.classList.toggle('hidden', !sectionHasResults && items.length > 0)
SectionHidden(s, expandedTerms) ==
    ~SectionHasResults(s, expandedTerms) /\ nItems[s] > 0

\* SearchManager.resetSearch()
resetSearch ==
    /\ hidden' = [s \in SectionIds |-> FALSE]
    /\ display' = [k \in AllItems |-> TRUE]
    /\ UNCHANGED <<open, ariaExpanded, icon>>

\* SearchManager.performSearch(query)
performSearch(query) ==
    /\ IF query = <<>> \/ Len(query) < 2
       THEN resetSearch
       ELSE LET expandedTerms == expandSearchQuery(query)
                opens(c) == IsMatch("checklist", c, expandedTerms) /\ ~open[c]
            IN /\ display' = [k \in AllItems |-> IsMatch(k[1], k[2], expandedTerms)]
               /\ hidden' = [s \in SectionIds |-> SectionHidden(s, expandedTerms)]
               /\ open' = [c \in Categories |-> open[c] \/ opens(c)]
               /\ ariaExpanded' = [c \in Categories |->
                                     IF opens(c) THEN TRUE ELSE ariaExpanded[c]]
               /\ icon' = [c \in Categories |-> IF opens(c) THEN "-" ELSE icon[c]]
    /\ last' = [op |-> "search", q |-> query, h |-> 0, was |-> {}]

\* what getAttribute('data-query') gives for data-query="${item}": the markup
\* ends the value at a double quote and decodes the character reference &#32;
RECURSIVE AttrValue(_)
AttrValue(item) ==
    IF item = <<>> THEN <<>>
    ELSE IF Head(item) = "\"" THEN <<>>
    ELSE IF Len(item) >= 5 /\ SubSeq(item, 1, 5) = <<"&","#","3","2",";">>
         THEN <<" ">> \o AttrValue(SubSeq(item, 6, Len(item)))
         ELSE <<Head(item)>> \o AttrValue(Tail(item))

\* matchingHistory of showRecentSearches(query)
MatchingHistory(query) ==
    LET matches(item) == Includes(ToLowerCase(item), query)
    IN IF query # <<>> THEN SelectSeq(searchHistory, matches) ELSE searchHistory

\* SearchManager.hideHistorySuggestions(); the items of a list that is not on
\* display cannot be clicked and are rebuilt before it is displayed again, so
\* they are not kept
hideHistorySuggestions ==
    /\ suggVisible' = FALSE
    /\ suggItems' = <<>>

\* SearchManager.showRecentSearches(query)
showRecentSearches(query) ==
    LET matchingHistory == MatchingHistory(query)
        shownItems == SubSeq(matchingHistory, 1,
                             IF Len(matchingHistory) < 5 THEN Len(matchingHistory) ELSE 5)
    IN IF Len(matchingHistory) = 0
       THEN hideHistorySuggestions
       ELSE /\ suggItems' = [i \in 1..Len(shownItems) |-> AttrValue(shownItems[i])]
            /\ suggVisible' = TRUE

\* safeStorage.setItem('searchHistory', v); a write that localStorage refuses
\* changes nothing the page reads again before it is reloaded, and is left out
StoreHistory(v) == storedHistory' = <<"value", v>>

\* a history that keeps the earlier occurrence of a query submitted again
SavedHistory_NoFilter(query) ==
    LET unshifted == <<query>> \o searchHistory
    IN SubSeq(unshifted, 1,
              IF Len(unshifted) < 5 THEN Len(unshifted) ELSE 5)

\* SearchManager.saveSearchHistory(query): the history it leaves
SavedHistory(query) ==
    LET differs(item) == item # query
        unshifted == <<query>> \o SelectSeq(searchHistory, differs)
    IN SubSeq(unshifted, 1,
              IF Len(unshifted) < MAX_SEARCH_HISTORY THEN Len(unshifted)
              ELSE MAX_SEARCH_HISTORY)

saveSearchHistory(query) ==
    IF Trim(query) = <<>> \/ Len(query) < 2
    THEN UNCHANGED <<searchHistory, storedHistory, last>>
    ELSE /\ searchHistory' = SavedHistory(query)
         /\ StoreHistory(SavedHistory(query))
         /\ last' = [op |-> "submit", q |-> query, h |-> Len(searchHistory),
                     was |-> {i \in DOMAIN searchHistory : searchHistory[i] = query}]

\* safeStorage.getItem('searchHistory', []) of the constructor: nothing stored,
\* or something JSON.parse rejects, gives the default
LoadedHistory(stored) == IF stored \in {<<"absent">>, <<"corrupt">>} THEN <<>> ELSE stored[2]

\* a delay that is over after two steps of the clock
SEARCH_DEBOUNCE_DELAY_Short == 2 * TickMs

\* the delay of debounce(..., CONFIG.SEARCH_DEBOUNCE_DELAY), in milliseconds
SEARCH_DEBOUNCE_DELAY == 300

\* an 'input' event: the user changes the text; debounce clears the pending
\* timeout and sets a new one
TypeInput(v) ==
    /\ value' = v
    /\ timer' = TRUE
    /\ elapsed' = 0
    /\ runs' = 0
    /\ UNCHANGED <<searchHistory, storedHistory, suggItems, suggVisible, last>>
    /\ UNCHANGED <<appVars, domVars, swVars>>

\* the function given to debounce for the 'input' event (this.currentQuery,
\* which it sets and nothing reads, is left out)
HandleInput ==
    /\ LET query == ToLowerCase(Trim(value))
       IN IF Len(query) >= 2
          THEN /\ showRecentSearches(query)
               /\ performSearch(query)
          ELSE /\ resetSearch
               /\ last' = [op |-> "reset", q |-> value, h |-> 0, was |-> {}]
               /\ hideHistorySuggestions
    /\ UNCHANGED <<nItems, value, searchHistory, storedHistory>>
    /\ UNCHANGED <<appVars, swVars>>

\* the timeout of debounce runs the handler, at a moment that is left open:
\* the clock of the timeout is not counted
InputHandler ==
    /\ timer
    /\ timer' = FALSE
    /\ HandleInput
    /\ UNCHANGED <<elapsed, runs>>

\* the timeout of debounce runs the handler once its delay has passed
TimeoutFires ==
    /\ timer
    /\ elapsed >= SEARCH_DEBOUNCE_DELAY
    /\ timer' = FALSE
    /\ runs' = runs + 1
    /\ HandleInput
    /\ UNCHANGED elapsed

\* time passes while the timeout is pending and its delay has not passed
Tick ==
    /\ timer
    /\ elapsed < SEARCH_DEBOUNCE_DELAY
    /\ elapsed' = elapsed + TickMs
    /\ UNCHANGED <<value, timer, runs, searchHistory, storedHistory, suggItems,
                   suggVisible, last>>
    /\ UNCHANGED <<appVars, domVars, swVars>>

\* the 'focus' handler
Focus ==
    /\ IF value = <<>> /\ Len(searchHistory) > 0
       THEN showRecentSearches(<<>>)
       ELSE UNCHANGED <<suggItems, suggVisible>>
    /\ UNCHANGED <<value, timer, elapsed, runs, searchHistory, storedHistory, last>>
    /\ UNCHANGED <<appVars, domVars, swVars>>

\* the 'keydown' handler, key Enter
KeydownEnter ==
    /\ LET query == Trim(value)
       IN IF Len(query) >= 2
          THEN saveSearchHistory(query)
          ELSE UNCHANGED <<searchHistory, storedHistory, last>>
    /\ UNCHANGED <<value, timer, elapsed, runs, suggItems, suggVisible>>
    /\ UNCHANGED <<appVars, domVars, swVars>>

\* the 'keydown' handler, key Escape
KeydownEscape ==
    /\ suggVisible
    /\ hideHistorySuggestions
    /\ UNCHANGED <<value, timer, elapsed, runs, searchHistory, storedHistory, last>>
    /\ UNCHANGED <<appVars, domVars, swVars>>

\* a click on a suggestion item
SuggestionClick(i) ==
    /\ suggVisible
    /\ i \in 1..Len(suggItems)
    /\ LET query == suggItems[i]
       IN /\ value' = query
          /\ performSearch(query)
    /\ hideHistorySuggestions
    /\ UNCHANGED <<nItems, timer, elapsed, runs, searchHistory, storedHistory>>
    /\ UNCHANGED <<appVars, swVars>>

\* a click on #clear-history
ClearHistory ==
    /\ suggVisible
    /\ searchHistory' = <<>>
    /\ StoreHistory(<<>>)
    /\ hideHistorySuggestions
    /\ last' = [op |-> "clear", q |-> <<>>, h |-> Len(searchHistory), was |-> {}]
    /\ UNCHANGED <<value, timer, elapsed, runs>>
    /\ UNCHANGED <<appVars, domVars, swVars>>

\* the search manager as its constructor leaves it
SearchInit(stored) ==
    /\ value = <<>>
    /\ timer = FALSE
    /\ elapsed = 0
    /\ runs = 0
    /\ storedHistory = stored
    /\ searchHistory = LoadedHistory(stored)
    /\ suggItems = <<>>
    /\ suggVisible = FALSE
    /\ last = NoOp

-----------------------------------------------------------------------------
(* The application: script.js, App.  data.json as the site serves it and the
   document of index.html are well formed, so that no initialization step
   throws; the document may lack the elements App looks up by id. *)

\* the steps of App.init once it has data
AppSteps ==
    <<"renderAll", "setupTheme", "setupScroll", "setupMobileMenu",
      "setupOfflineIndicator", "SearchManager">>

\* safeStorage.getItem(key): null for a missing value and for one that does
\* not parse
GetItem(stored) == IF stored \in {"absent", "corrupt"} THEN "null" ELSE stored

\* new App(), before DOMContentLoaded calls init()
AppInit ==
    /\ appPc = "constructed"
    /\ net = "pending"
    /\ loadingEl \in BOOLEAN
    /\ loadingText = "initial"
    /\ loadingDisplay = "shown"
    /\ themeToggleEl \in BOOLEAN
    /\ themeListener = FALSE
    /\ dataTheme = "unset"
    /\ appData \in {"absent", "corrupt", "data"}
    /\ storedTheme \in {"absent", "corrupt", "light", "dark"}
    /\ offlineTimer = FALSE
    /\ steps = <<>>

\* the page after an initialization that found data
AppRendered ==
    /\ appPc = "returned"
    /\ net = "ok"
    /\ loadingEl = TRUE
    /\ loadingText = "initial"
    /\ loadingDisplay = "none"
    /\ themeToggleEl = TRUE
    /\ themeListener = TRUE
    /\ dataTheme = "light"
    /\ appData = "data"
    /\ storedTheme = "absent"
    /\ offlineTimer = FALSE
    /\ steps = AppSteps

\* init(): the request for data.json is made
InitFetch ==
    /\ appPc = "constructed"
    /\ appPc' = "fetch"
    /\ UNCHANGED <<net, loadingEl, loadingText, loadingDisplay, themeToggleEl,
                   themeListener, dataTheme, appData, storedTheme, offlineTimer, steps>>
    /\ UNCHANGED <<swVars, domVars, searchVars>>

\* the second try block of init(): every step in order, then the loading
\* indicator is hidden
InitRender ==
    /\ steps' = AppSteps
    /\ dataTheme' = IF GetItem(storedTheme) = "null" THEN "light"
                    ELSE GetItem(storedTheme)
    /\ themeListener' = themeToggleEl
    /\ loadingDisplay' = IF loadingEl THEN "none" ELSE loadingDisplay
    /\ appPc' = "returned"

\* the catch block of init() and what follows it
InitCatch ==
    IF GetItem(appData) # "null" /\ loadingEl
    THEN /\ loadingText' = "offline"
         /\ offlineTimer' = TRUE
         /\ InitRender
    ELSE /\ loadingText' = IF loadingEl THEN "error" ELSE loadingText
         /\ appPc' = "returned"
         /\ UNCHANGED <<loadingDisplay, themeListener, dataTheme, offlineTimer, steps>>

\* the response arrives with ok; init() awaits response.json()
InitResponseOk ==
    /\ appPc = "fetch"
    /\ appPc' = "json"
    /\ UNCHANGED <<net, loadingEl, loadingText, loadingDisplay, themeToggleEl,
                   themeListener, dataTheme, appData, storedTheme, offlineTimer, steps>>
    /\ UNCHANGED <<swVars, domVars, searchVars>>

\* the response arrives without ok: init() throws into its catch block
InitResponseNotOk ==
    /\ appPc = "fetch"
    /\ net' = "not-ok"
    /\ InitCatch
    /\ UNCHANGED <<loadingEl, themeToggleEl, appData, storedTheme>>
    /\ UNCHANGED <<swVars, domVars, searchVars>>

\* fetch rejects
InitFetchRejects ==
    /\ appPc = "fetch"
    /\ net' = "rejected"
    /\ InitCatch
    /\ UNCHANGED <<loadingEl, themeToggleEl, appData, storedTheme>>
    /\ UNCHANGED <<swVars, domVars, searchVars>>

\* response.json() resolves; the data is stored when localStorage takes it
\* (ok), and rendered
InitJsonParsed(ok) ==
    /\ appPc = "json"
    /\ net' = "ok"
    /\ appData' = IF ok THEN "data" ELSE appData
    /\ InitRender
    /\ UNCHANGED <<loadingEl, loadingText, themeToggleEl, storedTheme, offlineTimer>>
    /\ UNCHANGED <<swVars, domVars, searchVars>>

\* response.json() rejects
InitJsonFails ==
    /\ appPc = "json"
    /\ net' = "bad-json"
    /\ InitCatch
    /\ UNCHANGED <<loadingEl, themeToggleEl, appData, storedTheme>>
    /\ UNCHANGED <<swVars, domVars, searchVars>>

\* the timeout of the offline notice
OfflineTimerFires ==
    /\ offlineTimer
    /\ appPc = "returned"
    /\ offlineTimer' = FALSE
    /\ loadingDisplay' = IF loadingEl THEN "none" ELSE loadingDisplay
    /\ UNCHANGED <<appPc, net, loadingEl, loadingText, themeToggleEl, themeListener,
                   dataTheme, appData, storedTheme, steps>>
    /\ UNCHANGED <<swVars, domVars, searchVars>>

\* the click listener of setupTheme; the theme is stored when localStorage
\* takes it (ok)
ThemeToggleClick(ok) ==
    /\ themeListener
    /\ LET newTheme == IF dataTheme = "dark" THEN "light" ELSE "dark"
       IN /\ dataTheme' = newTheme
          /\ storedTheme' = IF ok THEN newTheme ELSE storedTheme
    /\ UNCHANGED <<appPc, net, loadingEl, loadingText, loadingDisplay, themeToggleEl,
                   themeListener, appData, offlineTimer, steps>>
    /\ UNCHANGED <<swVars, domVars, searchVars>>

NextApp ==
    \/ InitFetch
    \/ InitResponseOk
    \/ InitResponseNotOk
    \/ InitFetchRejects
    \/ \E ok \in BOOLEAN : InitJsonParsed(ok)
    \/ InitJsonFails
    \/ OfflineTimerFires
    \/ \E ok \in BOOLEAN : ThemeToggleClick(ok)

-----------------------------------------------------------------------------
(* Specifications *)

\* the worker alone; no page script runs
InitWorker ==
    /\ WorkerInit
    /\ nItems = [s \in SectionIds |-> 0] /\ PageInit
    /\ SearchInit(<<"absent">>)
    /\ AppRendered

SpecWorker == InitWorker /\ [][NextWorker]_vars

\* no worker is deployed
NoWorker ==
    /\ WorkerInit
    /\ cacheNames = <<>>
    /\ ~pageOpen

\* what the user types into the search box
SearchInputs ==
    { <<>>, <<" ","a">>, <<"ru","beu","reu">>, <<"&","#","3","2",";","A">> }

InitSearch ==
    /\ NoWorker
    /\ PageInit
    /\ SearchInit(<<"absent">>)
    /\ AppRendered

NextSearch ==
    \/ \E v \in SearchInputs : TypeInput(v)
    \/ InputHandler
    \/ Focus
    \/ KeydownEnter
    \/ KeydownEscape
    \/ \E i \in 1..MAX_SEARCH_HISTORY : SuggestionClick(i)
    \/ ClearHistory
    \/ \E h \in 1..MaxCategories : ToggleChecklist(h)

\* the rendered page with its search box and its checklist
SpecSearch == InitSearch /\ [][NextSearch]_vars

\* what the user types into the search box when the history is looked at
HistoryInputs ==
    { <<>>, <<"a">>, <<" ","a","b"," ">>, <<"a","b">>, <<"A","b">>, <<"a","c">>,
      <<"a","d">>, <<"a","e">>, <<"a","f">> }

HistoryEntries == {Trim(v) : v \in {w \in HistoryInputs : Len(Trim(w)) >= 2}}

IsInjective(h) == \A i, j \in DOMAIN h : h[i] = h[j] => i = j

\* what localStorage can hold under 'searchHistory' when the page is loaded
StoredHistories ==
    {<<"absent">>, <<"corrupt">>} \cup
    {<<"value", h>> : h \in {g \in UNION {[1..n -> HistoryEntries] :
                                             n \in 0..MAX_SEARCH_HISTORY} : IsInjective(g)}}

InitHistory ==
    /\ NoWorker
    /\ nItems = [s \in SectionIds |-> 0] /\ PageInit
    /\ \E stored \in StoredHistories : SearchInit(stored)
    /\ AppRendered

\* while the suggestions are on display the user dismisses them, clears the
\* history or picks a suggestion
NextHistory ==
    \/ ~suggVisible /\ \E v \in HistoryInputs : TypeInput(v)
    \/ ~suggVisible /\ InputHandler
    \/ ~suggVisible /\ Focus
    \/ ~suggVisible /\ KeydownEnter
    \/ KeydownEscape
    \/ \E i \in 1..MAX_SEARCH_HISTORY : SuggestionClick(i)
    \/ ClearHistory

\* the search box and its history, on a page without searchable items
SpecHistory == InitHistory /\ [][NextHistory]_vars

\* the search box with the clock of the debounce counted: what is typed, the
\* keys Enter and Escape, the focus, the passing of time and the timeout
NextDebounce ==
    \/ \E v \in SearchInputs : TypeInput(v)
    \/ Tick
    \/ TimeoutFires
    \/ Focus
    \/ KeydownEnter
    \/ KeydownEscape

SpecDebounce == InitSearch /\ [][NextDebounce]_vars

\* the application from its construction to the end of its initialization, on
\* a page whose sections are still empty
InitApp ==
    /\ NoWorker
    /\ nItems = [s \in SectionIds |-> 0] /\ PageInit
    /\ SearchInit(<<"absent">>)
    /\ AppInit

SpecApp == InitApp /\ [][NextApp]_vars


-----------------------------------------------------------------------------
(* Claims about the offline cache worker *)

\* C1: a GET fetch event for which Cache Storage held a matching entry when
\* caches.match looked is answered with one of those entries, and fetch() is
\* not called for it.
C1_CacheFirst ==
    event.seen # {} =>
        /\ ~event.netCalled
        /\ event.pc \in {"settled", "responded"}
        /\ event.handed.kind = "response"
        /\ <<event.handed.store, [event.handed EXCEPT !.store = NoStore]>> \in event.seen
        /\ event.pc = "responded" => event.resp = event.handed

C1_Witness ==
    /\ event.pc = "responded"
    /\ event.method = "GET"
    /\ event.url = UrlData
    /\ event.seen # {}
    /\ event.resp.kind = "response"

\* the substrings the allow-list is said to consist of
AllowListed(url) ==
    \E sub \in {<<".","j","s">>, <<".","c","s","s">>, <<".","p","n","g">>,
                <<".","j","s","o","n">>} : Includes(url, sub)

ShouldStore(resp, url) ==
    /\ resp.kind = "response"
    /\ resp.from = "network"
    /\ resp.status = 200
    /\ resp.type = "basic"
    /\ AllowListed(url)

\* C2: on a GET cache miss the network response is written to the current
\* store if and only if it is a 200 'basic' response and the URL contains
\* '.js', '.css', '.png' or '.json': every entry the runtime caching wrote is
\* such a response for such a URL, in a store named for a version, /x.pdf is
\* in no store, and a missed request answered by such a response has its
\* response in the current store once its runtime-caching job is done.
C2_AllowList ==
    /\ \A n \in DOMAIN cacheData : \A u \in DOMAIN cacheData[n] :
          /\ cacheData[n][u].from = "runtime" =>
                /\ cacheData[n][u].status = 200
                /\ cacheData[n][u].type = "basic"
                /\ AllowListed(u)
                /\ n \in {CACHE_NAME(v) : v \in Versions}
          /\ u # UrlXPdf
    /\ (event.netCalled /\ event.pc \in {"settled", "responded"}) =>
          LET name == CACHE_NAME(event.ver)
              pending == \E j \in puts : j.ver = event.ver /\ j.url = event.url
              stored == /\ name \in DOMAIN cacheData
                        /\ event.url \in DOMAIN cacheData[name]
                        /\ cacheData[name][event.url].from = "runtime"
          IN  ShouldStore(event.handed, event.url) => (pending \/ stored)

C2_Witness ==
    /\ event.pc = "responded"
    /\ event.url = UrlXPdf
    /\ event.netCalled
    /\ event.resp.kind = "response" /\ event.resp.status = 200 /\ event.resp.type = "basic"
    /\ puts = {}
    /\ \E n \in DOMAIN cacheData :
          /\ UrlXJson \in DOMAIN cacheData[n]
          /\ cacheData[n][UrlXJson].from = "runtime"

\* C3: once the activation of version v has completed, and until a later
\* version opens its own store, Cache Storage holds exactly one store, the one
\* named for v; every store the activation found under another name is gone.
C3_OneStoreAfterActivate ==
    \A v \in Versions :
        (/\ wstate[v] = "activated"
         /\ \A u \in Versions : u > v => wstate[u] \in {"parsed", "installing", "redundant"})
        => /\ cacheNames = <<CACHE_NAME(v)>>
           /\ DOMAIN cacheData = {CACHE_NAME(v)}

C3_Witness ==
    /\ MaxVersion >= 2
    /\ wstate[2] = "activated"
    /\ CACHE_NAME(1) \in actDone
    /\ cacheNames = <<CACHE_NAME(2)>>

-----------------------------------------------------------------------------
(* Claims about the checklist accordion *)

OpenCategories == {c \in Categories : open[c]}

\* C4: in every state reached by header toggles, searches and resets at most
\* one checklist category is open.
C4_AtMostOneOpen == Cardinality(OpenCategories) <= 1

\* C5: after toggleChecklist(h) the open categories are exactly {h} when h was
\* closed before, and none when h was open before, whatever was open before.
C5_TogglePostcondition ==
    last.op = "toggle" =>
        OpenCategories = IF last.h \in last.was THEN {} ELSE {last.h}

C5_Witness ==
    /\ last.op = "toggle"
    /\ last.h = 2
    /\ last.was = {1}
    /\ OpenCategories = {2}

-----------------------------------------------------------------------------
(* Claims about the search history *)

\* C6: the history never has more than 5 entries nor an entry twice; a
\* submitted query (trimmed, 2 characters or more) is at index 0 until the
\* history is cleared or another query is submitted; submitting a query that
\* was in the list leaves the length as it was.
C6_HistoryBound ==
    /\ Len(searchHistory) <= 5
    /\ IsInjective(searchHistory)
    /\ last.op = "submit" =>
          /\ Len(last.q) >= 2
          /\ last.q = Trim(last.q)
          /\ Len(searchHistory) >= 1
          /\ searchHistory[1] = last.q
          /\ last.was # {} => Len(searchHistory) = last.h
          /\ last.was = {} =>
                Len(searchHistory) = IF last.h < 5 THEN last.h + 1 ELSE 5

C6_Witness ==
    /\ last.op = "submit"
    /\ last.was = {5}
    /\ Len(searchHistory) = 5
    /\ searchHistory[1] = <<"a","b">>
    /\ value = <<" ","a","b"," ">>

-----------------------------------------------------------------------------
(* Claims about the search *)

ShownAll ==
    /\ \A k \in AllItems : display[k]
    /\ \A s \in SectionIds : ~hidden[s]

\* C7: a search with a query whose trimmed length is less than 2, by the
\* typing handler or by performSearch, leaves every searchable item shown and
\* no section hidden.
C7_ShortQueryReset ==
    (last.op \in {"search", "reset"} /\ Len(Trim(last.q)) < 2) => ShownAll

\* the synonym lists one of whose synonyms the query contains
MatchedLists(q) ==
    {g \in SEARCH_SYNONYMS : \E syn \in g : Includes(ToLowerCase(q), syn)}

\* an item's content, lower-cased, contains the term
Contains(k, term) == Includes(ToLowerCase(Content(k[1], k[2])), term)

\* the lower-cased query and every synonym of the matched lists
ExpandedTerms(q) == {ToLowerCase(q)} \cup UNION MatchedLists(q)

\* C8: after performSearch with a query of length 2 or more, every item whose
\* content contains any synonym of a list the query matches is shown, and an
\* item is shown only if its content contains a non-empty expanded term.
C8_SynonymExpansion ==
    (last.op = "search" /\ Len(last.q) >= 2) =>
        /\ \A g \in MatchedLists(last.q) : \A k \in AllItems :
              (\E syn \in g : Contains(k, syn)) => (display[k] /\ ~hidden[k[1]])
        /\ \A k \in AllItems :
              display[k] => \E term \in ExpandedTerms(last.q) :
                                term # <<>> /\ Contains(k, term)

C8_Witness ==
    /\ last.op = "search"
    /\ last.q = <<"ru","beu","reu">>
    /\ nItems["checklist"] >= 1
    /\ ~Contains(<<"checklist", 1>>, last.q)
    /\ display[<<"checklist", 1>>]
    /\ ~hidden["checklist"]

\* C9: after performSearch with a query of length 2 or more a section is hidden
\* exactly when it has a searchable item and none of its items matches; a
\* section without searchable items is never hidden.
C9_SectionVisibility ==
    /\ (last.op = "search" /\ Len(last.q) >= 2) =>
          \A s \in SectionIds :
              hidden[s] <=>
                  /\ nItems[s] > 0
                  /\ \A i \in Items(s) :
                        ~\E term \in ExpandedTerms(last.q) :
                              term # <<>> /\ Contains(<<s, i>>, term)
    /\ \A s \in SectionIds : nItems[s] = 0 => ~hidden[s]

C9_Witness ==
    /\ last.op = "search"
    /\ Len(last.q) >= 2
    /\ nItems["itinerary"] > 0 /\ hidden["itinerary"]
    /\ nItems["checklist"] > 0 /\ ~hidden["checklist"]
    /\ nItems["notice"] = 0 /\ ~hidden["notice"]

-----------------------------------------------------------------------------
(* Claims about the application *)

\* the request yielded data, or it failed and 'appData' holds data of an
\* earlier request
SourceYieldsData == net = "ok" \/ (net # "ok" /\ GetItem(appData) # "null")

\* C10: on every page, with or without the loading indicator, App.init ends
\* with every section rendered when the request for the data succeeds or the
\* data of an earlier request is found under 'appData', and with nothing
\* rendered exactly when neither source yields data.
C10_InitStateMachine ==
    appPc = "returned" =>
        /\ SourceYieldsData => steps = AppSteps
        /\ steps = <<>> <=> ~SourceYieldsData

-----------------------------------------------------------------------------
(* Claims about the worker's failures and the order of its steps *)

\* C11: for a GET request with no cache entry whose network request fails, the
\* promise the handler gives to respondWith is rejected; it is not resolved
\* with a substitute or an empty value.
C11_FailureRejects ==
    (event.method = "GET" /\ event.seen = {} /\ event.netFailed) =>
        event.handed.kind = "rejected"

\* C12: once the version's store is open, an install whose pre-caching fails
\* (nothing is stored) still completes: the worker becomes installed, the
\* install is not rejected.
C12_PrecacheFailureNonFatal ==
    [][\A v \in Versions :
          (wstate[v] = "adding" /\ wstate'[v] # "adding" /\ cacheData' = cacheData)
              => wstate'[v] = "installed"]_vars

C12_Witness ==
    /\ wstate[1] = "installed"
    /\ HasStore(CACHE_NAME(1))
    /\ DOMAIN cacheData[CACHE_NAME(1)] = {}

\* C14: a response the fetch handler serves from cache comes from the store
\* named by the handling worker's CACHE_NAME; a request whose only entries are
\* in stores of another name goes to the network.
C14_LookupScope ==
    (event.method = "GET" /\ event.pc \in {"settled", "responded"}) =>
        /\ (event.handed.kind = "response" /\ ~event.netCalled)
              => event.handed.store = CACHE_NAME(event.ver)
        /\ (\A e \in event.seen : e[1] # CACHE_NAME(event.ver)) => event.netCalled

\* a 200 'basic' response for the allow-listed request of the current event was
\* returned to the page by an earlier event of the same worker, and its clone
\* is not stored yet
ReturnedUnstored ==
    \E j \in puts : /\ j.ver = event.ver
                    /\ j.url = event.url
                    /\ AllowListed(j.url)
                    /\ j.resp.status = 200 /\ j.resp.type = "basic"

\* C15: the clone is stored before the response is returned to the page: a
\* fetch event for the same request that starts after the page received the
\* response makes no network request.
C15_StoreThenReturn ==
    (event.method = "GET" /\ event.pc = "fetching") => ~ReturnedUnstored

\* C16: the activating worker takes control of a page that is open (claim())
\* only when every store whose name differs from its CACHE_NAME has been
\* deleted.
C16_ClaimAfterDeletes ==
    [][\A v \in Versions :
          (pageOpen /\ controller # v /\ controller' = v)
              => \A i \in 1..Len(cacheNames') : cacheNames'[i] = CACHE_NAME(v)]_vars

-----------------------------------------------------------------------------
(* Claims about the search and the typing handler *)

\* what the query alone says about the items: an item is shown exactly when its
\* content contains a non-empty expanded term
ShownFor(q) ==
    [k \in AllItems |-> \E term \in ExpandedTerms(q) : term # <<>> /\ Contains(k, term)]

\* what the query alone says about the sections
HiddenFor(q) ==
    [s \in SectionIds |-> nItems[s] > 0 /\ \A i \in Items(s) : ~ShownFor(q)[<<s, i>>]]

\* C13: after performSearch(q) with a query of length 2 or more, the shown or
\* hidden state of every item and of every section is the one q and the items'
\* content determine, whatever searches, resets and toggles ran before.
C13_SearchDeterminism ==
    (last.op = "search" /\ Len(last.q) >= 2) =>
        /\ display = ShownFor(last.q)
        /\ hidden = HiddenFor(last.q)

\* a search that matches nothing, after an earlier search opened both categories
C13_Witness ==
    /\ last.op = "search"
    /\ last.q = <<"&","#","3","2",";","a">>
    /\ nItems["checklist"] >= 2
    /\ open[1] /\ open[2]
    /\ \A k \in AllItems : ~display[k]
    /\ hidden["checklist"]

\* C17: the typing handler does not run until 300 ms have passed since the
\* last 'input' event; after a burst of them it runs at most once, and it
\* searches or resets with the value the input has then.
C17_Debounce ==
    /\ runs <= 1
    /\ timer => runs = 0
    /\ runs = 1 =>
          /\ ~timer
          /\ elapsed >= 300
          /\ last.op = "search" => last.q = ToLowerCase(Trim(value))
          /\ last.op = "reset" => last.q = value

\* two 'input' events less than 300 ms apart, then one run with the last value
C17_Witness ==
    /\ runs = 1
    /\ value = <<"ru","beu","reu">>
    /\ last.op = "search"
    /\ last.q = value
    /\ Len(searchHistory) = 1
    /\ searchHistory[1] = <<"&","#","3","2",";","A">>

=============================================================================
